---------------------------- MODULE Spec2Model ----------------------------
(***************************************************************************)
(* HireSense resume analysis service: role scoring (score_roles), JD       *)
(* similarity (jd_similarity) and the bounded history file (save_history). *)
(*                                                                         *)
(* Two deployments of the service are in the repository:                   *)
(*   "v4"  src/uploads/app.py      (JSON API, history capacity 100)        *)
(*   "v3"  src/app/uploads/app.py  (HTML app, history capacity 50)         *)
(* The variable `deployment` says which one runs.                          *)
(*                                                                         *)
(* Conventions.                                                            *)
(*  - A Python str that is lowercased, stripped, split or sorted is a      *)
(*    sequence of code points (<<112, 121>> is "py").                      *)
(*  - A score is an integer number of hundredths (6500 is 65.0): the code  *)
(*    rounds every score to 2 decimals.  The float expression of the code  *)
(*    and the exact rational agree after rounding unless the exact value   *)
(*    is a tie at the third decimal, which needs a keyword set (or a JD    *)
(*    token set) whose size is a multiple of 16; no input drawn here is.   *)
(*  - A Python list is a sequence, a set is a set, a dict that is iterated *)
(*    is the sequence of its items in insertion order.                     *)
(***************************************************************************)
EXTENDS Integers, Sequences, FiniteSets, TLC

VARIABLES
    deployment,     \* which app.py runs: "v4" or "v3"
    pc,             \* position of the call under study
    skills_lower,   \* score_roles argument: set of str
    roles_dict,     \* score_roles argument: ROLE_KEYWORDS, items in dict order
    target_role,    \* score_roles argument: None or a str
    result,         \* the dict score_roles returns
    resume_text,    \* jd_similarity argument
    jd_text,        \* jd_similarity argument
    SKLEARN_OK,     \* whether the TF-IDF vectorizer imported
    jd_match,       \* the float jd_similarity returns, in hundredths
    vec_calls,      \* number of TfidfVectorizer invocations made by the call
    HISTORY_FILE,   \* data/history.json: [state, list]
    saved,          \* every entry written to the store so far, oldest first
    calls,          \* the save_history calls in flight: [pc, entry, data, after]
    request,        \* the HTTP request handled last
    response,       \* the response it was given: [status, location, message]
    analyses,       \* number of analyses (score_roles calls) made by handlers
    before          \* HISTORY_FILE and analyses when that request came in

\* the variables of the request handlers
web == <<request, response, analyses, before>>

vars == <<deployment, pc, skills_lower, roles_dict, target_role, result,
          resume_text, jd_text, SKLEARN_OK, jd_match, vec_calls,
          HISTORY_FILE, saved, calls, web>>

Deployments == {"v4", "v3"}

-----------------------------------------------------------------------------
(* Bounds of the model. *)

MaxRoles == 7          \* roles_dict is drawn from a universe of this many roles
MaxTextLen == 3        \* every text up to this length is an input of jd_similarity
MaxSaves == 103        \* save_history calls made one after the other
MaxCalls == 2          \* save_history calls in flight together
MaxAnalyses == 2       \* requests that get as far as the analysis

-----------------------------------------------------------------------------
(* Python built-ins. *)

Range(s) == {s[i] : i \in DOMAIN s}

Min(a, b) == IF a <= b THEN a ELSE b

\* s[:n]
Take(s, n) == SubSeq(s, 1, Min(n, Len(s)))

\* str.lower() on ASCII text
Lower(s) == [i \in DOMAIN s |-> IF s[i] \in 65..90 THEN s[i] + 32 ELSE s[i]]

\* a < b on str: lexicographic by code point
StrLess(a, b) ==
    \E k \in 0..Min(Len(a), Len(b)) :
        /\ \A i \in 1..k : a[i] = b[i]
        /\ \/ k = Len(a) /\ k < Len(b)
           \/ k < Len(a) /\ k < Len(b) /\ a[k + 1] < b[k + 1]

\* sorted(list(S)) for a set of str
RECURSIVE sorted(_)
sorted(S) ==
    IF S = {} THEN <<>>
    ELSE LET m == CHOOSE x \in S : \A y \in S \ {x} : StrLess(x, y)
         IN  <<m>> \o sorted(S \ {m})

\* round(n / d * 100 ... , 2) as an integer: n / d rounded to the nearest
\* integer, ties to even (what round() gives on an exactly represented value)
RoundDiv(n, d) ==
    LET q == n \div d
        r == n % d
    IN  IF 2 * r > d \/ (2 * r = d /\ q % 2 = 1) THEN q + 1 ELSE q

\* str.isspace() of one ASCII character
IsSpace(c) == c \in (9..13) \cup (28..32)

\* str.strip()
Strip(s) ==
    LET solid == {i \in DOMAIN s : ~IsSpace(s[i])}
    IN  IF solid = {} THEN <<>>
        ELSE SubSeq(s, CHOOSE i \in solid : \A j \in solid : i <= j,
                       CHOOSE i \in solid : \A j \in solid : j <= i)

\* set(s.split()): the maximal runs of non-whitespace characters
SplitSet(s) ==
    {SubSeq(s, i, j) : <<i, j>> \in
        {p \in (DOMAIN s) \X (DOMAIN s) :
            /\ p[1] <= p[2]
            /\ \A k \in p[1]..p[2] : ~IsSpace(s[k])
            /\ p[1] = 1 \/ IsSpace(s[p[1] - 1])
            /\ p[2] = Len(s) \/ IsSpace(s[p[2] + 1])}}

None == "None"          \* Python's None, where an optional str is expected

\* bool(x) for an optional str
Truthy(x) == x # None /\ x # ""

-----------------------------------------------------------------------------
(* Keywords and skills the inputs are drawn from. *)

python == <<112, 121, 116, 104, 111, 110>>
sql == <<115, 113, 108>>
docker == <<100, 111, 99, 107, 101, 114>>
aws == <<97, 119, 115>>
git == <<103, 105, 116>>
PythonCap == <<80, 121, 116, 104, 111, 110>>   \* "Python"
SQLCap == <<83, 81, 76>>                       \* "SQL"
css == <<99, 115, 115>>
html == <<104, 116, 109, 108>>
java == <<106, 97, 118, 97>>
linux == <<108, 105, 110, 117, 120>>
nosql == <<110, 111, 115, 113, 108>>
react == <<114, 101, 97, 99, 116>>
rest == <<114, 101, 115, 116>>
spark == <<115, 112, 97, 114, 107>>
excel == <<101, 120, 99, 101, 108>>
tableau == <<116, 97, 98, 108, 101, 97, 117>>
cpp == <<99, 43, 43>>                          \* "c++"
golang == <<103, 111>>                         \* "go"
rlang == <<114>>                               \* "r"
kafka == <<107, 97, 102, 107, 97>>

\* Role definitions as models/roles_keywords.json may hold them (the file is
\* configuration, read at start-up): a role with two required and one
\* optional keyword, a role with no required keywords, a role whose required
\* keywords repeat in another case and that has no optional keywords, and a
\* role with more required keywords than missing_skills can show.
RoleTemplates ==
    << [required |-> <<python, sql>>, optional |-> <<docker>>],
       [required |-> <<>>, optional |-> <<docker, aws>>],
       [required |-> <<PythonCap, python, SQLCap>>, optional |-> <<>>],
       [required |-> <<tableau, spark, rest, react, nosql, linux, java, html,
                       golang, git, excel, css, cpp, rlang, kafka>>,
        optional |-> <<git, aws>>] >>

RoleName(i) == "R" \o ToString(i)

\* the i-th role of the universe
RoleItem(i) ==
    LET t == RoleTemplates[((i - 1) % Len(RoleTemplates)) + 1]
    IN  [role |-> RoleName(i), required |-> t.required, optional |-> t.optional]

\* the items of the universe whose index is in I, in increasing index order
RECURSIVE ItemsOf(_)
ItemsOf(I) ==
    IF I = {} THEN <<>>
    ELSE LET m == CHOOSE x \in I : \A y \in I : x <= y
         IN  <<RoleItem(m)>> \o ItemsOf(I \ {m})

RoleDicts == {ItemsOf(I) : I \in SUBSET (1..MaxRoles)}

SkillSets ==
    { {},
      {python},
      {python, docker},
      {python, sql},
      {python, sql, docker, aws},
      {python, git, css, html, java, linux, nosql, react, rest, spark, excel, cpp} }

TargetRoles == {None, "", "Astronaut"} \cup {RoleName(i) : i \in 1..MaxRoles}

-----------------------------------------------------------------------------
(* score_roles *)

\* len(hits) / len(total) if total else 0, as a fraction
Ratio(hits, total) ==
    IF total # {} THEN [num |-> Cardinality(hits), den |-> Cardinality(total)]
    ELSE [num |-> 0, den |-> 1]

\* FinalScore with the two weights exchanged
FinalScoreSwapped(req_score, opt_score) ==
    RoundDiv(1000 * (3 * req_score.num * opt_score.den
                     + 7 * opt_score.num * req_score.den),
             req_score.den * opt_score.den)

\* round((0.7 * req_score + 0.3 * opt_score) * 100, 2), in hundredths
FinalScore(req_score, opt_score) ==
    RoundDiv(1000 * (7 * req_score.num * opt_score.den
                     + 3 * opt_score.num * req_score.den),
             req_score.den * opt_score.den)

\* the body of the loop over roles_dict.items(): the (role, score) appended
RoleScore(item, skills) ==
    LET req == {Lower(k) : k \in Range(item.required)}
        opt == {Lower(k) : k \in Range(item.optional)}
        hits_req == req \cap skills
        hits_opt == opt \cap skills
    IN  [role |-> item.role,
         score |-> FinalScore(Ratio(hits_req, req), Ratio(hits_opt, opt))]

\* RoleMissing without the k.lower()
RoleMissingRaw(item, skills) == Range(item.required) \ skills

\* the body of the loop over roles_dict.items(): what is added to missing
RoleMissing(item, skills) ==
    {Lower(k) : k \in Range(item.required)} \ skills

\* scores after the loop, in dict order
ScoresOf(roles, skills) == [i \in DOMAIN roles |-> RoleScore(roles[i], skills)]

\* missing after the loop
MissingOf(roles, skills) ==
    UNION {RoleMissing(roles[i], skills) : i \in DOMAIN roles}

\* InsertDesc of a sort that is not stable: x goes before its equals
InsertDescUnstable(s, x) ==
    LET k == Cardinality({i \in DOMAIN s : s[i].score > x.score})
    IN  SubSeq(s, 1, k) \o <<x>> \o SubSeq(s, k + 1, Len(s))

\* one insertion of a stable descending sort: x goes after every element
\* whose score is >= its own
InsertDesc(s, x) ==
    LET k == Cardinality({i \in DOMAIN s : s[i].score >= x.score})
    IN  SubSeq(s, 1, k) \o <<x>> \o SubSeq(s, k + 1, Len(s))

\* scores.sort(key=lambda x: x[1], reverse=True): stable, descending
RECURSIVE SortScores(_)
SortScores(s) ==
    IF s = <<>> THEN <<>>
    ELSE InsertDesc(SortScores(SubSeq(s, 1, Len(s) - 1)), s[Len(s)])

Threshold == 4000       \* s >= 40
ShortlistLen == 3       \* [:3]
RoleScoresLen == 6      \* scores[:6]
MissingLen == 12        \* [:12]

\* Shortlist that fills up to 3 with the roles below the threshold
ShortlistPadded(scores) ==
    LET good == SelectSeq(scores, LAMBDA e : e.score >= Threshold)
        low == SelectSeq(scores, LAMBDA e : e.score < Threshold)
        pick == Take(good \o low, ShortlistLen)
    IN  [i \in DOMAIN pick |-> pick[i].role]

\* [r for r, s in scores if s >= 40][:3] or [r for r, _ in scores[:3]]
Shortlist(scores) ==
    LET good == SelectSeq(scores, LAMBDA e : e.score >= Threshold)
        pick == IF good # <<>> THEN Take(good, ShortlistLen)
                ELSE Take(scores, ShortlistLen)
    IN  [i \in DOMAIN pick |-> pick[i].role]

\* the condition of the `if target_role and ...` of each deployment
InjectsTarget(dep, target, rec_roles, scores) ==
    /\ Truthy(target)
    /\ target \notin Range(rec_roles)
    /\ dep = "v4" => \E i \in DOMAIN scores : scores[i].role = target

\* rec_roles after the optional rec_roles.insert(0, target_role)
RecommendedRoles(dep, target, scores) ==
    LET rec_roles == Shortlist(scores)
    IN  IF InjectsTarget(dep, target, rec_roles, scores)
        THEN <<target>> \o rec_roles
        ELSE rec_roles

\* AtsScore reading the other end of the sorted list
AtsScoreLast(scores) == IF scores # <<>> THEN scores[Len(scores)].score ELSE 0

\* scores[0][1] if scores else 0
AtsScore(scores) == IF scores # <<>> THEN scores[1].score ELSE 0

\* sorted(list(missing))[:12]
MissingSkills(missing) == Take(sorted(missing), MissingLen)

score_roles(dep, skills, roles, target) ==
    LET scores == SortScores(ScoresOf(roles, skills))
    IN  [ats_score |-> AtsScore(scores),
         recommended_roles |-> RecommendedRoles(dep, target, scores),
         role_scores |-> Take(scores, RoleScoresLen),
         missing_skills |-> MissingSkills(MissingOf(roles, skills))]

NoResult ==
    [ats_score |-> 0, recommended_roles |-> <<>>, role_scores |-> <<>>,
     missing_skills |-> <<>>]

-----------------------------------------------------------------------------
(* jd_similarity *)

\* Texts: every string over a space and three letters up to MaxTextLen, and
\* a few longer ones (tabs and newlines, three distinct tokens).
TextAlphabet == {32, 97, 65, 98}      \* " ", "a", "A", "b"

TextsOfLen(n) == [1..n -> TextAlphabet]

SampleTexts ==
    { <<97, 32, 98, 32, 97, 98>>,          \* "a b ab"
      <<97, 98, 9, 65, 10, 66, 66>>,       \* "ab\tA\nBB"
      <<9, 10, 32>> }                      \* "\t\n "

Texts == (UNION {TextsOfLen(n) : n \in 0..MaxTextLen}) \cup SampleTexts

\* `not jd_text.strip()` without the strip()
JdBlankNoStrip(jd) == jd = <<>>

\* not jd_text.strip()
JdBlank(jd) == Strip(jd) = <<>>

\* the fallback: round(100 * len(r & j) / len(j), 2) if j else 0.0
KeywordOverlap(resume, jd) ==
    LET r == SplitSet(Lower(resume))
        j == SplitSet(Lower(jd))
    IN  IF j # {} THEN RoundDiv(10000 * Cardinality(r \cap j), Cardinality(j))
        ELSE 0

\* TfidfVectorizer's default token_pattern finds a term in the text: a run
\* of two or more word characters (none of the runs drawn here is an English
\* stop word)
HasTerm(text) ==
    \E i \in DOMAIN text :
        /\ i < Len(text)
        /\ \A k \in {i, i + 1} :
               text[k] \in (48..57) \cup (65..90) \cup (97..122) \cup {95}

\* fit_transform raises ValueError("empty vocabulary") when no document has
\* a term
TfidfRaises(resume, jd) == ~HasTerm(resume) /\ ~HasTerm(jd)

\* round(cosine * 100, 2) of the library call: 0 when a document has no
\* term, else a value of [0, 100] the library decides
TfidfScores(resume, jd) ==
    IF HasTerm(resume) /\ HasTerm(jd) THEN {0, 3333, 10000} ELSE {0}

-----------------------------------------------------------------------------
(* save_history *)

\* The file is missing, empty (size 0), corrupt (text json.loads rejects) or
\* holds a JSON list.  An entry is the number that stands for its "id".
File(state, list) == [state |-> state, list |-> list]

CapacityV4 == 100       \* data[:100]
CapacityV3 == 50        \* data[:50]

Capacity(dep) == IF dep = "v4" THEN CapacityV4 ELSE CapacityV3

\* HISTORY_FILE.touch(exist_ok=True)
Touched(f) == IF f.state = "missing" THEN File("empty", <<>>) ELSE f

\* HISTORY_FILE.stat().st_size > 0 (a missing file raises, and the except
\* clause leaves data = [])
SizePositive(f) == f.state \in {"corrupt", "list"}

\* json.loads(HISTORY_FILE.read_text()), data = [] when it raises
Loaded(f) == IF f.state = "list" THEN f.list ELSE <<>>

\* the try block: data as read from the file
ReadData(f) == IF SizePositive(f) THEN Loaded(f) ELSE <<>>

\* data.append(entry) in place of data.insert(0, entry)
Appended(data, entry) == Append(data, entry)

\* data.insert(0, entry)
Inserted(data, entry) == <<entry>> \o data

\* what write_text leaves once it has opened the file for writing
Truncated == File("empty", <<>>)

\* Dumped keeping the last N entries, data[-N:], in place of data[:N]
DumpedTail(dep, data) ==
    File("list", SubSeq(data, Len(data) - Min(Capacity(dep), Len(data)) + 1,
                        Len(data)))

\* what write_text(json.dumps(data[:N], indent=2)) leaves in the file
Dumped(dep, data) == File("list", Take(data, Capacity(dep)))

\* the whole call, nothing else touching the file
save_history(dep, f, entry) ==
    Dumped(dep, Inserted(ReadData(Touched(f)), entry))

\* the list <<-1, ..., -n>>: n entries stored before the service started,
\* newest first
OldList(n) == [i \in 1..n |-> -i]

Reverse(s) == [i \in DOMAIN s |-> s[Len(s) + 1 - i]]

\* the files the service may find when it starts
InitialFiles(dep) ==
    {File("missing", <<>>), File("empty", <<>>), File("corrupt", <<>>)}
    \cup {File("list", OldList(n)) :
             n \in {0, 1, 2, Capacity(dep) - 1, Capacity(dep), Capacity(dep) + 1}}

-----------------------------------------------------------------------------
(* Values of the variables a specification does not use. *)

NoFile == File("missing", <<>>)

IdleScore ==
    /\ skills_lower = {}
    /\ roles_dict = <<>>
    /\ target_role = None
    /\ result = NoResult

IdleJd ==
    /\ resume_text = <<>>
    /\ jd_text = <<>>
    /\ SKLEARN_OK = FALSE
    /\ jd_match = -1          \* no value returned yet
    /\ vec_calls = 0

IdleHistory ==
    /\ HISTORY_FILE = NoFile
    /\ saved = <<>>
    /\ calls = <<>>

IdleCall == pc = "idle"

NoRequest == [endpoint |-> "none"]

NoResponse == [status |-> 0, location |-> "", message |-> ""]

IdleWeb ==
    /\ request = NoRequest
    /\ response = NoResponse
    /\ analyses = 0
    /\ before = [file |-> NoFile, analyses |-> 0]

-----------------------------------------------------------------------------
(* One call of score_roles on inputs drawn from the sets above. *)

InitScore ==
    /\ deployment \in Deployments
    /\ pc = "call"
    /\ skills_lower \in SkillSets
    /\ roles_dict \in RoleDicts
    /\ target_role \in TargetRoles
    /\ result = NoResult
    /\ IdleJd
    /\ IdleHistory
    /\ IdleWeb

ScoreRoles ==
    /\ pc = "call"
    /\ result' = score_roles(deployment, skills_lower, roles_dict, target_role)
    /\ pc' = "done"
    /\ UNCHANGED <<deployment, skills_lower, roles_dict, target_role,
                   resume_text, jd_text, SKLEARN_OK, jd_match, vec_calls,
                   HISTORY_FILE, saved, calls, web>>

NextScore == ScoreRoles

SpecScore == InitScore /\ [][NextScore]_vars

-----------------------------------------------------------------------------
(* One call of jd_similarity on inputs drawn from Texts. *)

InitJd ==
    /\ deployment \in Deployments
    /\ pc = "call"
    /\ resume_text \in Texts
    /\ jd_text \in Texts
    /\ SKLEARN_OK \in BOOLEAN
    /\ jd_match = -1          \* no value returned yet
    /\ vec_calls = 0
    /\ IdleScore
    /\ IdleHistory
    /\ IdleWeb

JdUnchanged ==
    UNCHANGED <<deployment, skills_lower, roles_dict, target_role, result,
                resume_text, jd_text, SKLEARN_OK, HISTORY_FILE, saved, calls,
                web>>

\* if not jd_text.strip(): return 0.0
JdReturnsBlank ==
    /\ pc = "call"
    /\ JdBlank(jd_text)
    /\ jd_match' = 0
    /\ pc' = "done"
    /\ UNCHANGED vec_calls
    /\ JdUnchanged

\* if SKLEARN_OK: the vectorizer is built and fitted, the cosine returned
JdReturnsTfidf ==
    /\ pc = "call"
    /\ ~JdBlank(jd_text)
    /\ SKLEARN_OK
    /\ ~TfidfRaises(resume_text, jd_text)
    /\ vec_calls' = vec_calls + 1
    /\ \E c \in TfidfScores(resume_text, jd_text) : jd_match' = c
    /\ pc' = "done"
    /\ JdUnchanged

\* if SKLEARN_OK: fit_transform raises and the exception leaves the call
JdRaisesTfidf ==
    /\ pc = "call"
    /\ ~JdBlank(jd_text)
    /\ SKLEARN_OK
    /\ TfidfRaises(resume_text, jd_text)
    /\ vec_calls' = vec_calls + 1
    /\ pc' = "raised"
    /\ UNCHANGED jd_match
    /\ JdUnchanged

\* the keyword-overlap fallback
JdReturnsOverlap ==
    /\ pc = "call"
    /\ ~JdBlank(jd_text)
    /\ ~SKLEARN_OK
    /\ jd_match' = KeywordOverlap(resume_text, jd_text)
    /\ pc' = "done"
    /\ UNCHANGED vec_calls
    /\ JdUnchanged

NextJd == JdReturnsBlank \/ JdReturnsTfidf \/ JdRaisesTfidf \/ JdReturnsOverlap

SpecJd == InitJd /\ [][NextJd]_vars

-----------------------------------------------------------------------------
(* save_history called again and again, one call at a time. *)

InitHistory ==
    /\ deployment \in Deployments
    /\ HISTORY_FILE \in InitialFiles(deployment)
    /\ saved = Reverse(Loaded(HISTORY_FILE))
    /\ calls = <<>>
    /\ IdleCall
    /\ IdleScore
    /\ IdleJd
    /\ IdleWeb

\* the entries saved by the service (not those it found)
NewEntries == {saved[i] : i \in {k \in DOMAIN saved : saved[k] > 0}}

\* one request saves its entry: the next unused id
SaveHistory ==
    /\ Cardinality(NewEntries) < MaxSaves
    /\ LET entry == Cardinality(NewEntries) + 1
       IN  /\ HISTORY_FILE' = save_history(deployment, HISTORY_FILE, entry)
           /\ saved' = Append(saved, entry)
    /\ UNCHANGED <<deployment, pc, skills_lower, roles_dict, target_role,
                   result, resume_text, jd_text, SKLEARN_OK, jd_match,
                   vec_calls, calls, web>>

NextHistory == SaveHistory

SpecHistory == InitHistory /\ [][NextHistory]_vars

-----------------------------------------------------------------------------
(* MaxCalls requests run save_history at the same time: each statement of *)
(* save_history that reads or writes the file is a step of its own.        *)

Calls == 1..MaxCalls

InitRace ==
    /\ deployment \in Deployments
    /\ HISTORY_FILE \in InitialFiles(deployment)
    /\ saved = Reverse(Loaded(HISTORY_FILE))
    /\ calls = [c \in Calls |->
                  [pc |-> "start", entry |-> c, data |-> <<>>, after |-> {}]]
    /\ IdleCall
    /\ IdleScore
    /\ IdleJd
    /\ IdleWeb

RaceUnchanged ==
    UNCHANGED <<deployment, pc, skills_lower, roles_dict, target_role, result,
                resume_text, jd_text, SKLEARN_OK, jd_match, vec_calls, web>>

\* the call is entered and runs HISTORY_FILE.touch(exist_ok=True); `after`
\* records the calls that had returned by then
Touch(c) ==
    /\ calls[c].pc = "start"
    /\ HISTORY_FILE' = Touched(HISTORY_FILE)
    /\ calls' = [calls EXCEPT ![c].pc = "stat",
                              ![c].after = {d \in Calls : calls[d].pc = "done"}]
    /\ UNCHANGED saved
    /\ RaceUnchanged

\* HISTORY_FILE.stat().st_size > 0
Stat(c) ==
    /\ calls[c].pc = "stat"
    /\ calls' = [calls EXCEPT ![c].pc =
                      IF SizePositive(HISTORY_FILE) THEN "read" ELSE "insert"]
    /\ UNCHANGED <<HISTORY_FILE, saved>>
    /\ RaceUnchanged

\* data = json.loads(HISTORY_FILE.read_text())
Read(c) ==
    /\ calls[c].pc = "read"
    /\ calls' = [calls EXCEPT ![c].pc = "insert",
                              ![c].data = Loaded(HISTORY_FILE)]
    /\ UNCHANGED <<HISTORY_FILE, saved>>
    /\ RaceUnchanged

\* data.insert(0, entry)
Insert(c) ==
    /\ calls[c].pc = "insert"
    /\ calls' = [calls EXCEPT ![c].pc = "open",
                              ![c].data = Inserted(calls[c].data, calls[c].entry)]
    /\ UNCHANGED <<HISTORY_FILE, saved>>
    /\ RaceUnchanged

\* write_text opens the file for writing, which empties it
Open(c) ==
    /\ calls[c].pc = "open"
    /\ HISTORY_FILE' = Truncated
    /\ calls' = [calls EXCEPT ![c].pc = "write"]
    /\ UNCHANGED saved
    /\ RaceUnchanged

\* write_text writes json.dumps(data[:N]) and closes; the call returns
Write(c) ==
    /\ calls[c].pc = "write"
    /\ HISTORY_FILE' = Dumped(deployment, calls[c].data)
    /\ calls' = [calls EXCEPT ![c].pc = "done"]
    /\ saved' = Append(saved, calls[c].entry)
    /\ RaceUnchanged

NextRace ==
    \E c \in Calls :
        Touch(c) \/ Stat(c) \/ Read(c) \/ Insert(c) \/ Open(c) \/ Write(c)

SpecRace == InitRace /\ [][NextRace]_vars

-----------------------------------------------------------------------------
(* The request handlers: analyze and analyze_file of v4, analyze of v3. *)

pdf == <<112, 100, 102>>
docx == <<100, 111, 99, 120>>
txt == <<116, 120, 116>>

ALLOWED_EXTENSIONS == {pdf, docx, txt}

\* filename.rsplit(".", 1)[1] of a filename that has a "."
AfterLastDot(filename) ==
    LET dots == {i \in DOMAIN filename : filename[i] = 46}
        k == CHOOSE i \in dots : \A j \in dots : j <= i
    IN  SubSeq(filename, k + 1, Len(filename))

allowed_file(filename) ==
    /\ 46 \in Range(filename)
    /\ Lower(AfterLastDot(filename)) \in ALLOWED_EXTENSIONS

\* file names of uploads: "", "cv", "cv.pdf", "cv.PDF", "a.b.docx", "cv.exe"
FileNames ==
    { <<>>, <<99, 118>>, <<99, 118, 46, 112, 100, 102>>, <<99, 118, 46, 80, 68, 70>>, <<97, 46, 98, 46, 100, 111, 99, 120>>,
      <<99, 118, 46, 101, 120, 101>> }

\* the JSON bodies of POST /analyze (v4): no or invalid JSON, an object
\* without "resume", and objects whose "resume" is "", " " and "ab a"
JsonBodies ==
    { [json |-> FALSE, has_resume |-> FALSE, resume |-> <<>>],
      [json |-> TRUE, has_resume |-> FALSE, resume |-> <<>>] }
    \cup { [json |-> TRUE, has_resume |-> TRUE, resume |-> r] :
              r \in {<<>>, <<32>>, <<97, 98, 32, 97>>} }

\* the texts of the "jd" / "job_description" field: absent or "", " ab"
JdFields == {<<>>, <<32, 97, 98>>}

TargetFields == {None, RoleName(1)}

NoBody == [json |-> FALSE, has_resume |-> FALSE, resume |-> <<>>]

JsonRequests ==
    { [endpoint |-> "/analyze", body |-> b, has_file |-> FALSE,
       filename |-> <<>>, content |-> <<>>, jd |-> j, target_role |-> tr] :
       b \in JsonBodies, j \in JdFields, tr \in TargetFields }

\* what an uploaded file holds: nothing, or "ab a"
FileContents == {<<>>, <<97, 98, 32, 97>>}

\* the multipart requests: without a "resume" part, or with one of some
\* file name and content
UploadRequests(path) ==
    { [endpoint |-> path, body |-> NoBody, has_file |-> FALSE,
       filename |-> <<>>, content |-> <<>>, jd |-> j, target_role |-> tr] :
       j \in JdFields, tr \in TargetFields }
    \cup
    { [endpoint |-> path, body |-> NoBody, has_file |-> TRUE,
       filename |-> fn, content |-> c, jd |-> j, target_role |-> tr] :
       fn \in FileNames, c \in FileContents, j \in JdFields,
       tr \in TargetFields }

\* the POST routes of each application and the requests sent to them
Requests(dep) ==
    IF dep = "v4" THEN JsonRequests \cup UploadRequests("/analyze_file")
    ELSE UploadRequests("/analyze")

\* extract_text_from_file(path): the text of the saved file, or no text at
\* all; never a text the file does not hold
ExtractedTexts(content) == {<<>>, content}

\* normalize_text(text): a text without surrounding whitespace
NormalizedTexts(text) == {Strip(text), Lower(Strip(text))}

\* extract_skills(text): the skills found in the text, none in a blank one
ExtractedSkills(text) ==
    IF Strip(text) = <<>> THEN {{}} ELSE {{}, {python, docker}}

\* the outcomes of jd_similarity(resume, jd): the value returned and the
\* vectorizer calls made, or the exception raised
JdOutcomes(resume, jd, sklearn) ==
    IF JdBlank(jd) THEN {[raised |-> FALSE, value |-> 0, vec |-> 0]}
    ELSE IF ~sklearn
         THEN {[raised |-> FALSE, value |-> KeywordOverlap(resume, jd), vec |-> 0]}
    ELSE IF TfidfRaises(resume, jd)
         THEN {[raised |-> TRUE, value |-> 0, vec |-> 1]}
    ELSE {[raised |-> FALSE, value |-> c, vec |-> 1] : c \in TfidfScores(resume, jd)}

Response(status, location, message) ==
    [status |-> status, location |-> location, message |-> message]

\* jsonify({"error": message}), 400 in v4; flash(message) and
\* redirect(url_for("upload_page")) in v3
Rejection(dep, message_v4, message_v3) ==
    IF dep = "v4" THEN Response(400, "", message_v4)
    ELSE Response(302, "upload_page", message_v3)

\* the three checks of the upload handlers: the rejection, or NoResponse
\* when the upload passes them
UploadRejection(dep, r) ==
    IF ~r.has_file THEN Rejection(dep, "No file part 'resume'", "No file part")
    ELSE IF r.filename = <<>>
         THEN Rejection(dep, "No selected file", "No selected file")
    ELSE IF ~allowed_file(r.filename)
         THEN Rejection(dep, "Unsupported file type. Upload PDF, DOCX, or TXT.",
                        "Unsupported file type.")
    ELSE NoResponse

\* jsonify(analysis) in v4; flash and redirect(url_for("result")) in v3
Success(dep) ==
    IF dep = "v4" THEN Response(200, "", "")
    ELSE Response(302, "result", "Analysis completed successfully!")

\* an exception that leaves the view function: Flask answers 500
ServerError == Response(500, "", "")

\* the text a request hands to normalize_text: the stripped "resume" of the
\* JSON body, or the text extracted from the uploaded file
RawTexts(r) ==
    IF r.endpoint = "/analyze_file" \/ deployment = "v3"
    THEN ExtractedTexts(r.content)
    ELSE {Strip(r.body.resume)}

\* the history files the applications start with: none, one with a single
\* entry and one that is an entry short of its capacity
WebFiles(dep) ==
    {File("missing", <<>>), File("list", OldList(1)),
     File("list", OldList(Capacity(dep) - 1))}

WebUnchanged == UNCHANGED <<deployment, pc, roles_dict, SKLEARN_OK, calls>>

\* the handler returns at one of its validation checks
Reject(r) ==
    /\ r.endpoint = "/analyze_file" \/ deployment = "v3"
    /\ UploadRejection(deployment, r) # NoResponse
    /\ request' = r
    /\ before' = [file |-> HISTORY_FILE, analyses |-> analyses]
    /\ response' = UploadRejection(deployment, r)
    /\ UNCHANGED <<skills_lower, target_role, result, resume_text, jd_text,
                   jd_match, vec_calls, HISTORY_FILE, saved, analyses>>
    /\ WebUnchanged

\* the handler runs the analysis: normalize_text, extract_skills,
\* score_roles, jd_similarity, then save_history and the response, unless
\* jd_similarity raises
Analyze(r) ==
    /\ analyses < MaxAnalyses
    /\ (r.endpoint = "/analyze_file" \/ deployment = "v3") =>
           UploadRejection(deployment, r) = NoResponse
    /\ request' = r
    /\ before' = [file |-> HISTORY_FILE, analyses |-> analyses]
    /\ \E raw \in RawTexts(r) : \E clean_text \in NormalizedTexts(raw) :
       \E skills \in ExtractedSkills(clean_text) :
       \E jd \in JdOutcomes(clean_text, Strip(r.jd), SKLEARN_OK) :
           /\ skills_lower' = skills
           /\ target_role' = r.target_role
           /\ resume_text' = clean_text
           /\ jd_text' = Strip(r.jd)
           /\ result' = score_roles(deployment, skills, roles_dict, r.target_role)
           /\ analyses' = analyses + 1
           /\ vec_calls' = jd.vec
           /\ \/ /\ ~jd.raised
                 /\ jd_match' = jd.value
                 /\ LET entry == Cardinality(NewEntries) + 1
                    IN  /\ HISTORY_FILE' = save_history(deployment, HISTORY_FILE, entry)
                        /\ saved' = Append(saved, entry)
                 /\ response' = Success(deployment)
              \/ /\ jd.raised
                 /\ response' = ServerError
                 /\ UNCHANGED <<jd_match, HISTORY_FILE, saved>>
    /\ WebUnchanged

InitWeb ==
    /\ deployment \in Deployments
    /\ roles_dict = ItemsOf({1, 2, 3})
    /\ SKLEARN_OK \in BOOLEAN
    /\ HISTORY_FILE \in WebFiles(deployment)
    /\ saved = Reverse(Loaded(HISTORY_FILE))
    /\ skills_lower = {}
    /\ target_role = None
    /\ result = NoResult
    /\ resume_text = <<>>
    /\ jd_text = <<>>
    /\ jd_match = -1
    /\ vec_calls = 0
    /\ calls = <<>>
    /\ IdleCall
    /\ request = NoRequest
    /\ response = NoResponse
    /\ analyses = 0
    /\ before = [file |-> HISTORY_FILE, analyses |-> 0]

NextWeb ==
    \/ \E r \in Requests(deployment) : Reject(r)
    \/ \E r \in Requests(deployment) : Analyze(r)

SpecWeb == InitWeb /\ [][NextWeb]_vars

-----------------------------------------------------------------------------
(* Properties of score_roles. *)

Done == pc = "done"

\* the (role, score) pairs of the call, in dict order
AllScores == ScoresOf(roles_dict, skills_lower)

\* position of a role in the dict's iteration order
DictIndex(name) == CHOOSE i \in DOMAIN roles_dict : roles_dict[i].role = name

\* e comes before f in a stable descending sort of the dict's pairs
Before(e, f) ==
    \/ e.score > f.score
    \/ e.score = f.score /\ DictIndex(e.role) < DictIndex(f.role)

\* C1: role_scores is the first 6 entries of the (role, score) pairs sorted
\* by score descending, pairs of equal score in dict order: it has
\* min(6, number of roles) entries, all of them pairs of the call, each
\* entry before the next in that order, and every pair left out comes after
\* every entry kept.
C1_RoleScoresTop6Stable ==
    Done =>
        LET rs == result.role_scores
        IN  /\ Len(rs) = Min(6, Len(roles_dict))
            /\ Len(rs) <= 6
            /\ \A i \in DOMAIN rs : rs[i] \in Range(AllScores)
            /\ \A i, j \in DOMAIN rs : i < j => Before(rs[i], rs[j])
            /\ \A e \in Range(AllScores) \ Range(rs) :
                   \A i \in DOMAIN rs : Before(rs[i], e)

\* a call with more than 6 roles whose returned list holds a tie
C1_Witness ==
    /\ Done
    /\ Len(roles_dict) > 6
    /\ \E i, j \in DOMAIN result.role_scores :
           /\ i < j
           /\ result.role_scores[i].score = result.role_scores[j].score
           /\ result.role_scores[i].score > 0

\* C2: ats_score is role_scores[0].score when role_scores is not empty and
\* 0 otherwise, and it is the maximum score over all roles of the dict.
C2_AtsIsTopScore ==
    Done =>
        LET rs == result.role_scores
        IN  /\ rs # <<>> => result.ats_score = rs[1].score
            /\ rs = <<>> => result.ats_score = 0
            /\ roles_dict # <<>> =>
                   /\ \E e \in Range(AllScores) : e.score = result.ats_score
                   /\ \A e \in Range(AllScores) : e.score <= result.ats_score

\* a call with more than 6 roles, of different scores, the best not first
\* in the dict
C2_Witness ==
    /\ Done
    /\ Len(roles_dict) > 6
    /\ result.ats_score > AllScores[1].score
    /\ \E e \in Range(AllScores) : e.score < AllScores[1].score

\* role names of the dict
RoleNames == {roles_dict[i].role : i \in DOMAIN roles_dict}

\* the shortlist before any target_role injection
BaseShortlist == Shortlist(SortScores(AllScores))

\* C3: recommended_roles is the shortlist (at most 3 entries), or target_role
\* followed by the shortlist (at most 4 entries) and then only when
\* target_role is supplied, is a key of the dict and is not in the
\* shortlist; a target_role that is not a key of the dict is never in the
\* list and never makes it longer than 3.
C3_TargetInjectedOnlyIfKnown ==
    Done =>
        LET rec == result.recommended_roles
        IN  /\ Len(BaseShortlist) <= 3
            /\ \/ rec = BaseShortlist
               \/ /\ rec = <<target_role>> \o BaseShortlist
                  /\ Truthy(target_role)
                  /\ target_role \in RoleNames
                  /\ target_role \notin Range(BaseShortlist)
            /\ (Truthy(target_role) /\ target_role \notin RoleNames) =>
                   /\ target_role \notin Range(rec)
                   /\ Len(rec) <= 3

\* the required keywords of all roles, lowercased, that the skill set lacks
AllMissing ==
    UNION { {Lower(k) : k \in Range(roles_dict[i].required)} \ skills_lower :
            i \in DOMAIN roles_dict }

\* C4: missing_skills is the first 12 elements, in alphabetical order, of
\* the union over all roles of (lowercased required keywords minus the
\* skill set): min(12, size of the union) elements of it, strictly
\* increasing, every element left out greater than every element kept, and
\* none of them in the skill set.
C4_MissingSkillsFirst12Sorted ==
    Done =>
        LET ms == result.missing_skills
        IN  /\ Len(ms) = Min(12, Cardinality(AllMissing))
            /\ Len(ms) <= 12
            /\ Range(ms) \subseteq AllMissing
            /\ \A i \in 1..(Len(ms) - 1) : StrLess(ms[i], ms[i + 1])
            /\ \A u \in AllMissing \ Range(ms) :
                   \A i \in DOMAIN ms : StrLess(ms[i], u)
            /\ Range(ms) \cap skills_lower = {}

\* a call whose union has more than 12 elements, some from a role that is
\* not the top one and one from a keyword written in upper case
C4_Witness ==
    /\ Done
    /\ Cardinality(AllMissing) > 12
    /\ Len(result.missing_skills) = 12
    /\ sql \in AllMissing
    /\ kafka \in Range(result.missing_skills)
    /\ result.role_scores[1].role \in {RoleName(2), RoleName(6)}

\* the exact value of 100 * (0.7 * req_ratio + 0.3 * opt_ratio) for an item,
\* in hundredths, as the fraction num / den
ExactScore(item) ==
    LET Req == {Lower(k) : k \in Range(item.required)}
        Opt == {Lower(k) : k \in Range(item.optional)}
        rn == IF Req = {} THEN 0 ELSE Cardinality(Req \cap skills_lower)
        rd == IF Req = {} THEN 1 ELSE Cardinality(Req)
        on == IF Opt = {} THEN 0 ELSE Cardinality(Opt \cap skills_lower)
        od == IF Opt = {} THEN 1 ELSE Cardinality(Opt)
    IN  [num |-> 7000 * rn * od + 3000 * on * rd, den |-> rd * od]

\* s is x rounded to the nearest integer
IsRounded(s, x) ==
    /\ 2 * (s * x.den - x.num) <= x.den
    /\ 2 * (x.num - s * x.den) <= x.den

\* C5: the score of every returned role is 100 * (0.7 * req_ratio + 0.3 *
\* opt_ratio) rounded to 2 decimals, a ratio over an empty keyword set being
\* 0; it lies in [0, 100]; a role with no required keywords scores at most
\* 30; and the dict {R1: required [python, sql], optional [docker]} with
\* skills {python, docker} gives the score 65.0 and missing [sql].
C5_ScoreFormula ==
    Done =>
        /\ \A i \in DOMAIN result.role_scores :
               LET e == result.role_scores[i]
                   item == roles_dict[DictIndex(e.role)]
               IN  /\ IsRounded(e.score, ExactScore(item))
                   /\ 0 <= e.score /\ e.score <= 10000
                   /\ item.required = <<>> => e.score <= 3000
        /\ (roles_dict = ItemsOf({1}) /\ skills_lower = {python, docker}) =>
               /\ result.role_scores = <<[role |-> RoleName(1), score |-> 6500]>>
               /\ result.ats_score = 6500
               /\ result.missing_skills = <<sql>>

\* the call of the example
C5_Witness ==
    /\ Done
    /\ roles_dict = ItemsOf({1})
    /\ skills_lower = {python, docker}
    /\ result.ats_score = 6500

\* C6: with an empty role dict the result is ats_score 0 and three empty
\* lists, whatever the skill set and the target_role.
C6_EmptyDictEmptyResult ==
    (Done /\ roles_dict = <<>>) =>
        /\ result.ats_score = 0
        /\ result.recommended_roles = <<>>
        /\ result.role_scores = <<>>
        /\ result.missing_skills = <<>>

\* the sorted positions whose score reaches the threshold
GoodPositions(s) == {i \in DOMAIN s : s[i].score >= 4000}

\* base is the first 3 roles of s whose score is >= 40, or the first 3
\* roles of s when no score is >= 40
IsShortlistOf(base, s) ==
    LET good == GoodPositions(s)
    IN  /\ good # {} =>
               /\ Len(base) = Min(3, Cardinality(good))
               /\ \A k \in DOMAIN base : \E i \in good :
                      /\ base[k] = s[i].role
                      /\ Cardinality({j \in good : j < i}) = k - 1
        /\ good = {} =>
               /\ Len(base) = Min(3, Len(s))
               /\ \A k \in DOMAIN base : base[k] = s[k].role
        /\ Cardinality(good) = 1 => Len(base) = 1

\* C9: recommended_roles, without the target_role that may have been put in
\* front of it, is the first 3 roles, in sorted order, whose score is >= 40;
\* when no role reaches 40 it is the first 3 roles of the sorted list; so
\* with exactly one role >= 40 the shortlist is that role alone.  Without a
\* target_role, recommended_roles is that shortlist itself.
C9_ShortlistThresholdThenFallback ==
    Done =>
        LET s == SortScores(AllScores)
            rec == result.recommended_roles
        IN  /\ \/ IsShortlistOf(rec, s)
               \/ /\ rec # <<>>
                  /\ Truthy(target_role)
                  /\ rec[1] = target_role
                  /\ target_role \notin Range(Tail(rec))
                  /\ IsShortlistOf(Tail(rec), s)
            /\ ~Truthy(target_role) => IsShortlistOf(rec, s)

\* exactly one of at least 3 roles reaches 40 and the shortlist is that role
C9_Witness ==
    /\ Done
    /\ Len(roles_dict) >= 3
    /\ ~Truthy(target_role)
    /\ Cardinality(GoodPositions(SortScores(AllScores))) = 1
    /\ Len(result.recommended_roles) = 1

-----------------------------------------------------------------------------
(* Properties of jd_similarity. *)

\* the token sets of the fallback
ResumeTokens == SplitSet(Lower(resume_text))

JdTokens == SplitSet(Lower(jd_text))

\* jd_text is empty or only whitespace
JdIsBlank == \A i \in DOMAIN jd_text : IsSpace(jd_text[i])

\* C8 as stated: a blank jd_text gives 0.0 without a vectorizer call, and
\* without the vectorizer a non-blank jd_text gives exactly
\* 100 * |tokens(resume) & tokens(jd)| / |tokens(jd)|, which is in [0, 100].
C8_AsStated ==
    pc # "call" =>
        /\ JdIsBlank => (pc = "done" /\ jd_match = 0 /\ vec_calls = 0)
        /\ (~JdIsBlank /\ ~SKLEARN_OK) =>
               /\ pc = "done"
               /\ vec_calls = 0
               /\ jd_match * Cardinality(JdTokens)
                      = 10000 * Cardinality(ResumeTokens \cap JdTokens)
               /\ 0 <= jd_match /\ jd_match <= 10000

\* C8 (amended): a blank jd_text gives 0.0 without a vectorizer call, whether
\* or not the vectorizer is available; without the vectorizer a non-blank
\* jd_text gives 100 * |tokens(resume) & tokens(jd)| / |tokens(jd)| rounded
\* to 2 decimals, which is in [0, 100].
C8_BlankJdZeroElseRoundedOverlap ==
    pc # "call" =>
        /\ JdIsBlank => (pc = "done" /\ jd_match = 0 /\ vec_calls = 0)
        /\ (~JdIsBlank /\ ~SKLEARN_OK) =>
               /\ pc = "done"
               /\ vec_calls = 0
               /\ IsRounded(jd_match,
                            [num |-> 10000 * Cardinality(ResumeTokens \cap JdTokens),
                             den |-> Cardinality(JdTokens)])
               /\ 0 <= jd_match /\ jd_match <= 10000

\* a whitespace-only jd_text, a resume with a term, the vectorizer available
C8_Witness ==
    /\ pc = "done"
    /\ SKLEARN_OK
    /\ jd_text # <<>>
    /\ JdIsBlank
    /\ HasTerm(resume_text)
    /\ jd_match = 0

-----------------------------------------------------------------------------
(* Properties of save_history. *)

\* h is the n most recently saved entries, newest first
IsMostRecent(h, n) ==
    /\ Len(h) = Min(n, Len(saved))
    /\ \A i \in DOMAIN h : h[i] = saved[Len(saved) + 1 - i]

\* C7: after any number of save_history calls made one after the other,
\* from any stored list, the file holds a list of at most N entries (100 in
\* v4, 50 in v3), the last saved entry at index 0, and the list is the N
\* most recently saved entries, newest first: the oldest are the ones
\* dropped.
C7_HistoryIsNMostRecent ==
    NewEntries # {} =>
        /\ HISTORY_FILE.state = "list"
        /\ Len(HISTORY_FILE.list) <= Capacity(deployment)
        /\ Capacity(deployment) = (IF deployment = "v4" THEN 100 ELSE 50)
        /\ HISTORY_FILE.list[1] = saved[Len(saved)]
        /\ IsMostRecent(HISTORY_FILE.list, Capacity(deployment))

\* the service started without a file and saved more entries than the file
\* holds: the file is full and entry 1 is gone
C7_Witness ==
    /\ saved # <<>>
    /\ saved[1] = 1
    /\ Len(saved) > Capacity(deployment)
    /\ Len(HISTORY_FILE.list) = Capacity(deployment)
    /\ HISTORY_FILE.list[Capacity(deployment)] = Len(saved) - Capacity(deployment) + 1
    /\ HISTORY_FILE.list[1] = Len(saved)

AllDone == \A c \in Calls : calls[c].pc = "done"

\* every two calls ran one after the other
Serialized ==
    \A c, d \in Calls : c # d => (c \in calls[d].after \/ d \in calls[c].after)

\* the list the service found when it started
FoundList == Reverse(SelectSeq(saved, LAMBDA e : e < 0))

\* C10: when the concurrent save_history calls have all returned, the file
\* is what the last writer wrote (its own entry first, then the list it had
\* read, cut to N); and if the calls ran one after the other the file is the
\* N most recent entries, so with room for them below the capacity every
\* call's entry is kept.  (That some interleaving loses an entry is
\* C10_Witness.)
C10_LastWriteWinsSerializedKeepsAll ==
    AllDone =>
        LET h == HISTORY_FILE.list
            last == saved[Len(saved)]
        IN  /\ HISTORY_FILE.state = "list"
            /\ h[1] = last
            /\ h = Take(calls[last].data, Capacity(deployment))
            /\ Serialized =>
                   /\ IsMostRecent(h, Capacity(deployment))
                   /\ Len(FoundList) + MaxCalls <= Capacity(deployment) =>
                          \A c \in Calls : calls[c].entry \in Range(h)

\* two calls both read the list the service found (not empty, with room
\* below the capacity) before either wrote; both have returned and the file
\* holds that list and only one of the two new entries
C10_Witness ==
    /\ AllDone
    /\ ~Serialized
    /\ FoundList # <<>>
    /\ Len(FoundList) + MaxCalls <= Capacity(deployment)
    /\ \A c \in {1, 2} : Tail(calls[c].data) = FoundList
    /\ HISTORY_FILE.state = "list"
    /\ Tail(HISTORY_FILE.list) = FoundList
    /\ Cardinality({c \in {1, 2} : calls[c].entry \in Range(HISTORY_FILE.list)}) = 1

-----------------------------------------------------------------------------
(* Properties of the request handlers. *)

Handled == request # NoRequest

IsUpload(r) == r.has_file \/ r.endpoint = "/analyze_file" \/ deployment = "v3"

\* the name ends in ".pdf", ".docx" or ".txt", in any letter case
HasAcceptedExtension(filename) ==
    \E e \in {pdf, docx, txt} :
        /\ Len(filename) > Len(e)
        /\ filename[Len(filename) - Len(e)] = 46
        /\ Lower(SubSeq(filename, Len(filename) - Len(e) + 1, Len(filename))) = e

MissingFile(r) == IsUpload(r) /\ ~r.has_file

EmptyFilename(r) == IsUpload(r) /\ r.has_file /\ r.filename = <<>>

DisallowedExtension(r) ==
    /\ IsUpload(r)
    /\ r.has_file
    /\ r.filename # <<>>
    /\ ~HasAcceptedExtension(r.filename)

\* nothing to analyse: an uploaded file of no bytes, or a JSON request
\* without a body or without a non-empty "resume"
EmptyPayload(r) ==
    IF IsUpload(r) THEN r.has_file /\ r.content = <<>>
    ELSE ~r.body.json \/ ~r.body.has_resume \/ r.body.resume = <<>>

ValidationError(r) ==
    MissingFile(r) \/ EmptyFilename(r) \/ DisallowedExtension(r) \/ EmptyPayload(r)

HistoryUntouched == HISTORY_FILE = before.file /\ analyses = before.analyses

\* C11: every request with an input-validation error (no "resume" file
\* part, empty filename, an extension other than pdf/docx/txt, or an empty
\* payload) is answered with a 4xx status and a non-empty message, and
\* leaves the history store as it was, with no analysis made.
C11_ValidationErrorsGet4xxAndKeepHistory ==
    (Handled /\ ValidationError(request)) =>
        /\ response.status \in 400..499
        /\ response.message # ""
        /\ HistoryUntouched

\* What the handlers do guarantee: a request stopped at one of the three
\* upload checks gets a message and leaves the history store as it was,
\* and is answered 400 by v4 and with a redirect to the upload page by v3.
RejectedUploadKeepsHistory ==
    (Handled /\ (MissingFile(request) \/ EmptyFilename(request)
                    \/ DisallowedExtension(request))) =>
        /\ response.message # ""
        /\ HistoryUntouched
        /\ IF deployment = "v4" THEN response.status = 400
           ELSE response.status = 302 /\ response.location = "upload_page"

\* v4 answers an empty JSON body with 200 and a new history entry
EmptyJsonAnalysed ==
    /\ Handled
    /\ deployment = "v4"
    /\ request.endpoint = "/analyze"
    /\ ~request.body.json
    /\ response.status = 200
    /\ ~HistoryUntouched

\* an upload of an empty file with an accepted name is analysed and saved
EmptyFileAnalysed ==
    /\ Handled
    /\ request.has_file
    /\ request.content = <<>>
    /\ response \in {Success("v4"), Success("v3")}
    /\ ~HistoryUntouched

=============================================================================
